---- MODULE Spec2Model ----
(***************************************************************************)
(* Model of src/src/git.rs: the Repo handle over a git working directory.  *)
(*                                                                         *)
(* Byte streams and strings are sequences of tokens; the token NL is the   *)
(* line terminator and the token BadByte stands for a byte sequence that   *)
(* is not valid UTF-8.  The git executable is modelled by the operators    *)
(* Git*, one per command line the handle issues; a repository is a linear  *)
(* history of commits on one branch, HEAD either on the branch or detached.*)
(***************************************************************************)
EXTENDS Integers, Sequences, FiniteSets

\* ---------------------------------------------------------------- bounds
MaxCommits == 3
MaxNth == 2

\* ------------------------------------------------------------- vocabulary
NL == "\n"
BadByte == "<invalid-utf8>"
Paths == {"a", "b"}
PathOrder == <<"a", "b">>
BadPath == "<non-utf8-path>"
PathArgs == Paths \cup {BadPath}
DefaultBranch == "main"
Directory == "/repo"
HashOf == <<"c1", "c2", "c3", "c4", "c5", "c6">>
\* the message of the i-th commit: git commit -m <subject> [-m <body>]
SubjectOf == <<"add README", "file2-1", "file1 message", "file2-2", "m5", "m6">>
MessageOf(i) == [subject |-> SubjectOf[i],
                 body |-> IF i % 2 = 0 THEN <<"details">> ELSE <<>>]
\* what the environment does to one run of git (see WithEnv)
EnvKinds == {"ok", "warn", "bad", "nospawn"}
CheckoutEnvs == {"ok", "warn", "nospawn"}
EnvPairs == { e \in EnvKinds \X CheckoutEnvs : e[1] = "ok" \/ e[2] = "ok" }

AmbiguousHeadMsg == "fatal: ambiguous argument 'HEAD': unknown revision or path not in the working tree."
NoCommitsMsg == <<"git repository does not contain any commit.">>
NoCommitsContext == <<"repository has no commits">>
InvalidPathMsg == <<"invalid path">>
Utf8ErrorMsg == <<"invalid utf-8 sequence">>
IoErrorMsg == <<"No such file or directory (os error 2)">>

\* commits    the commits of the repository in the directory, oldest first
\*            (tests: Repo::init, Repo::git_add_and_commit)
\* head       the commit HEAD points to, 0 before the first commit
\* branch     the active branch, "" while HEAD is detached
\* untracked  the files on disk that no commit holds (tests: fs::write)
\* isRepo     whether git init was run in the directory
\* repo       the handle: struct Repo { directory, current_branch }
\* lastOp     the operation called last, its arguments, and where HEAD was
\* result     what that operation returned (anyhow::Result)
\* issued     the std::process::Output of every command that operation ran
VARIABLES commits, head, branch, untracked, isRepo,
          repo, lastOp, result, issued

vars == <<commits, head, branch, untracked, isRepo,
          repo, lastOp, result, issued>>

\* ------------------------------------------------------------ text helpers
RECURSIVE LinesAcc(_, _, _)
LinesAcc(s, cur, acc) ==
    IF s = <<>> THEN (IF cur = <<>> THEN acc ELSE Append(acc, cur))
    ELSE IF Head(s) = NL THEN LinesAcc(Tail(s), <<>>, Append(acc, cur))
    ELSE LinesAcc(Tail(s), Append(cur, Head(s)), acc)

\* str::lines(): split at line terminators, a final empty line is dropped
Lines(s) == LinesAcc(s, <<>>, <<>>)

\* str::contains(needle)
Contains(s, needle) ==
    \E i \in 0..(Len(s) - Len(needle)) :
        \A j \in 1..Len(needle) : s[i + j] = needle[j]

\* String::from_utf8 succeeds exactly on valid UTF-8
Utf8Valid(bytes) == \A i \in 1..Len(bytes) : bytes[i] # BadByte

\* usize::to_string(): the decimal digits, most significant first
Digits == <<"0", "1", "2", "3", "4", "5", "6", "7", "8", "9">>
RECURSIVE UsizeToString(_)
UsizeToString(n) ==
    IF n < 10 THEN <<Digits[n + 1]>>
    ELSE Append(UsizeToString(n \div 10), Digits[(n % 10) + 1])

DigitValue(d) == CHOOSE v \in 0..9 : Digits[v + 1] = d
RECURSIVE ParseInt(_)
ParseInt(t) ==
    IF Len(t) = 1 THEN DigitValue(t[1])
    ELSE 10 * ParseInt(SubSeq(t, 1, Len(t) - 1)) + DigitValue(t[Len(t)])

Ok(v) == [ok |-> TRUE, val |-> v, err |-> <<>>]
Err(e) == [ok |-> FALSE, val |-> <<>>, err |-> e]
Unit == <<>>

\* ------------------------------------------------------- the repository
\* A commit: the paths it changed against its parent, the paths its tree
\* holds, and its message.  Commit i's parent is commit i - 1.
Hash(i) == HashOf[i]
IsHash(t) == Len(t) = 1 /\ \E i \in 1..Len(commits) : t = <<Hash(i)>>
CommitOfHash(t) == CHOOSE i \in 1..Len(commits) : t = <<Hash(i)>>

TreeAt(h) == IF h = 0 THEN {} ELSE commits[h].tree
\* the files present in the working directory
OnDisk == TreeAt(head) \cup untracked
EverTracked == UNION { commits[i].tree : i \in 1..Len(commits) }

RECURSIVE SeqOfPaths(_, _)
SeqOfPaths(S, i) ==
    IF i > Len(PathOrder) THEN <<>>
    ELSE (IF PathOrder[i] \in S THEN <<PathOrder[i], NL>> ELSE <<>>)
         \o SeqOfPaths(S, i + 1)

\* hashes of the commits among h, h-1, .., 1 that satisfy the filter,
\* newest first, at most n of them, one per line
RECURSIVE LogLines(_, _, _)
LogLines(h, n, p) ==
    IF h = 0 \/ n = 0 THEN <<>>
    ELSE IF p \in commits[h].touched
         THEN <<Hash(h), NL>> \o LogLines(h - 1, n - 1, p)
         ELSE LogLines(h - 1, n, p)

\* ------------------------------------------------------------ transport
\* What one run of the git executable answers: spawned (io::Result is Ok),
\* exit status, the two streams, and where it leaves HEAD.
Output(st, out, err, h, b) ==
    [spawned |-> TRUE, status |-> st, stdout |-> out, stderr |-> err,
     head |-> h, branch |-> b, args |-> <<>>, env |-> "ok"]
Same(st, out, err) == Output(st, out, err, head, branch)
SpawnFailed ==
    [spawned |-> FALSE, status |-> -1, stdout |-> <<>>, stderr |-> <<>>,
     head |-> head, branch |-> branch, args |-> <<>>, env |-> "nospawn"]

NotARepo == Same(128, <<>>, <<"fatal: not a git repository (or any of the parent directories): .git", NL>>)
UnbornLog == Same(128, <<>>, <<"fatal: your current branch does not have any commits yet", NL>>)
AmbiguousArg == <<"fatal: ambiguous argument: unknown revision or path not in the working tree.", NL,
                  "Use '--' to separate paths from revisions", NL>>

\* git rev-parse --abbrev-ref HEAD
GitRevParseAbbrevRefHead ==
    IF ~isRepo THEN NotARepo
    ELSE IF head = 0
         THEN Same(128, <<"HEAD", NL>>,
                   <<AmbiguousHeadMsg, NL, "Use '--' to separate paths from revisions", NL>>)
    ELSE IF branch = "" THEN Same(0, <<"HEAD", NL>>, <<>>)
    ELSE Same(0, <<branch, NL>>, <<>>)

\* git <option that is no option of git itself> ...: no subcommand is named
GitNoSubcommand(opt) ==
    Same(129, <<>>, <<"unknown option:", opt, NL, "usage: git [--version] [--help] [-C <path>] <command> [<args>]", NL>>)

\* git log --format=%H -n <n> <path>
GitLogHashesAtPath(n, p) ==
    IF ~isRepo THEN NotARepo
    ELSE IF head = 0 THEN UnbornLog
    ELSE IF p \notin OnDisk THEN Same(128, <<>>, AmbiguousArg)
    ELSE Same(0, LogLines(head, ParseInt(n), p), <<>>)

\* git log -1 --pretty=format:%s
GitLogSubject ==
    IF ~isRepo THEN NotARepo
    ELSE IF head = 0 THEN UnbornLog
    ELSE Same(0, <<commits[head].msg.subject>>, <<>>)

\* git diff-tree --no-commit-id --name-only -r <commit>
GitDiffTree(c) ==
    IF ~isRepo THEN NotARepo
    ELSE IF ~IsHash(c) THEN Same(128, <<>>, AmbiguousArg)
    ELSE IF CommitOfHash(c) = 1 THEN Same(0, <<>>, <<>>)
    ELSE Same(0, SeqOfPaths(commits[CommitOfHash(c)].touched, 1), <<>>)

\* git checkout <object>
GitCheckout(obj) ==
    IF ~isRepo THEN NotARepo
    ELSE IF Len(obj) = 1 /\ obj[1] = DefaultBranch /\ Len(commits) > 0
         THEN Output(0, <<>>,
                     IF branch = DefaultBranch THEN <<"Already on", DefaultBranch, NL>>
                     ELSE <<"Switched to branch", DefaultBranch, NL>>,
                     Len(commits), DefaultBranch)
    ELSE IF IsHash(obj)
         THEN Output(0, <<>>, <<"HEAD is now at", obj[1], NL>>, CommitOfHash(obj), "")
    ELSE Same(1, <<>>, <<"error: pathspec did not match any file(s) known to git", NL>>)

\* What the environment adds to one run: nothing, a warning on the error
\* stream, bytes that are no UTF-8 on the error stream, or no process at all.
WithEnv(o, env) ==
    CASE env = "ok" -> o
      [] env = "warn" -> [o EXCEPT !.stderr = <<"warning: something", NL>> \o @]
      [] env = "bad" -> [o EXCEPT !.stderr = <<BadByte>> \o @]
      [] env = "nospawn" -> SpawnFailed

\* the git executable, by its argument list
Git(args) ==
    CASE args[1] = "rev-parse" -> GitRevParseAbbrevRefHead
      [] args[1] = "checkout" -> GitCheckout(args[2])
      [] args[1] = "diff-tree" -> GitDiffTree(args[5])
      [] args[1] = "log" /\ args[2] = "--format=%H" -> GitLogHashesAtPath(args[4], args[5])
      [] args[1] = "log" /\ args[2] = "-1" -> GitLogSubject
      [] OTHER -> GitNoSubcommand(args[1])

\* ------------------------------------------------------------ the handle
NoRepo == [built |-> FALSE, directory |-> "", current_branch |-> <<>>]

\* Command::new("git").arg("-C").arg(dir).args(args).output()
git_in_dir(dir, args, env) ==
    [WithEnv(Git(args), env) EXCEPT !.args = args, !.env = env]

\* Run a git command in the repository git directory
git(args, env) == git_in_dir(repo.directory, args, env)

\* what an operation hands back: its result, the outputs of the commands
\* it ran, and where the last of them left HEAD
Done(r, outs) ==
    [res |-> r, outs |-> outs,
     head |-> IF outs = <<>> THEN head ELSE outs[Len(outs)].head,
     branch |-> IF outs = <<>> THEN branch ELSE outs[Len(outs)].branch]

\* stdout gated on the exit status instead of the error stream
stdout_gated_on_status(output) ==
    IF output.status # 0
    THEN (IF Utf8Valid(output.stderr) THEN Err(output.stderr) ELSE Err(Utf8ErrorMsg))
    ELSE IF Utf8Valid(output.stdout) THEN Ok(output.stdout)
    ELSE Err(Utf8ErrorMsg)

stdout(output) ==
    IF output.stderr # <<>>
    THEN (IF Utf8Valid(output.stderr) THEN Err(output.stderr) ELSE Err(Utf8ErrorMsg))
    ELSE IF Utf8Valid(output.stdout) THEN Ok(output.stdout)
    ELSE Err(Utf8ErrorMsg)

\* get_current_branch without the map_err: the raw transport text leaks
get_current_branch_raw(dir, env) ==
    LET o == git_in_dir(dir, <<"rev-parse", "--abbrev-ref", "HEAD">>, env)
    IN  IF ~o.spawned THEN Done(Err(IoErrorMsg), <<o>>)
        ELSE Done(stdout(o), <<o>>)

get_current_branch(dir, env) ==
    LET o == git_in_dir(dir, <<"rev-parse", "--abbrev-ref", "HEAD">>, env)
        r == stdout(o)
    IN  IF ~o.spawned THEN Done(Err(IoErrorMsg), <<o>>)
        ELSE IF ~r.ok /\ Contains(r.err, <<AmbiguousHeadMsg>>)
             THEN Done(Err(NoCommitsMsg), <<o>>)
        ELSE Done(r, <<o>>)

new(dir, env) ==
    LET b == get_current_branch(dir, env)
    IN  IF ~b.res.ok THEN b
        ELSE Done(Ok([built |-> TRUE, directory |-> dir, current_branch |-> b.res.val]), b.outs)

\* .lines().last() with the empty list answered by an empty string
LastLineOrEmpty(text) ==
    LET ls == Lines(text)
    IN  IF ls = <<>> THEN Ok(<<>>) ELSE Ok(ls[Len(ls)])

\* .lines().last().context("repository has no commits")
LastLine(text) ==
    LET ls == Lines(text)
    IN  IF ls = <<>> THEN Err(NoCommitsContext) ELSE Ok(ls[Len(ls)])

nth_commit(nth, env) ==
    LET o == git(<<"--format=\"%H\"", "-n", UsizeToString(nth)>>, env)
        commit_list == stdout(o)
    IN  IF ~o.spawned THEN Done(Err(IoErrorMsg), <<o>>)
        ELSE IF ~commit_list.ok THEN Done(commit_list, <<o>>)
        ELSE Done(LastLine(commit_list.val), <<o>>)

current_commit(env) == nth_commit(1, env)

previous_commit(env) == nth_commit(2, env)

checkout(object, env) ==
    LET o == git(<<"checkout", object>>, env)
    IN  IF ~o.spawned THEN Done(Err(IoErrorMsg), <<o>>)
        ELSE Done(Ok(Unit), <<o>>)

checkout_head(env) ==
    LET o == git(<<"checkout", repo.current_branch>>, env)
    IN  IF ~o.spawned THEN Done(Err(IoErrorMsg), <<o>>)
        ELSE Done(Ok(Unit), <<o>>)

checkout_last_commit(env1, env2) ==
    LET c == previous_commit(env1)
        k == checkout(c.res.val, env2)
    IN  IF ~c.res.ok THEN c
        ELSE Done(k.res, c.outs \o k.outs)

\* Path::to_string_lossy(): never fails
PathToStrLossy(path) == Ok(path)

\* Path::to_str(): None when the path is not valid UTF-8
PathToStr(path) == IF path = BadPath THEN Err(InvalidPathMsg) ELSE Ok(path)

\* nth_commit_at_path that also checks out the commit it resolved
nth_commit_at_path_moving(nth, path, env) ==
    LET s == PathToStr(path)
        o == git(<<"log", "--format=%H", "-n", UsizeToString(nth), s.val>>, env)
        commit_list == stdout(o)
        k == checkout(LastLine(commit_list.val).val, env)
    IN  IF ~s.ok THEN Done(s, <<>>)
        ELSE IF ~o.spawned THEN Done(Err(IoErrorMsg), <<o>>)
        ELSE IF ~commit_list.ok THEN Done(commit_list, <<o>>)
        ELSE IF ~LastLine(commit_list.val).ok THEN Done(LastLine(commit_list.val), <<o>>)
        ELSE Done(LastLine(commit_list.val), <<o>> \o k.outs)

\* nth_commit_at_path that fails when the list is shorter than nth
nth_commit_at_path_strict(nth, path, env) ==
    LET s == PathToStr(path)
        o == git(<<"log", "--format=%H", "-n", UsizeToString(nth), s.val>>, env)
        commit_list == stdout(o)
    IN  IF ~s.ok THEN Done(s, <<>>)
        ELSE IF ~o.spawned THEN Done(Err(IoErrorMsg), <<o>>)
        ELSE IF ~commit_list.ok THEN Done(commit_list, <<o>>)
        ELSE IF Len(Lines(commit_list.val)) < nth THEN Done(Err(NoCommitsContext), <<o>>)
        ELSE Done(LastLine(commit_list.val), <<o>>)

nth_commit_at_path(nth, path, env) ==
    LET s == PathToStr(path)
        o == git(<<"log", "--format=%H", "-n", UsizeToString(nth), s.val>>, env)
        commit_list == stdout(o)
    IN  IF ~s.ok THEN Done(s, <<>>)
        ELSE IF ~o.spawned THEN Done(Err(IoErrorMsg), <<o>>)
        ELSE IF ~commit_list.ok THEN Done(commit_list, <<o>>)
        ELSE Done(LastLine(commit_list.val), <<o>>)

previous_commit_at_path(path, env) == nth_commit_at_path(2, path, env)

\* checkout_previous_commit_at_path with the resolution error dropped
\* (unwrap_or_default) and the checkout run regardless
checkout_previous_commit_at_path_unchecked(path, env1, env2) ==
    LET c == previous_commit_at_path(path, env1)
        k == checkout(c.res.val, env2)
    IN  Done(k.res, c.outs \o k.outs)

checkout_previous_commit_at_path(path, env1, env2) ==
    LET c == previous_commit_at_path(path, env1)
        k == checkout(c.res.val, env2)
    IN  IF ~c.res.ok THEN c
        ELSE Done(k.res, c.outs \o k.outs)

\* current_commit_message with --pretty=%s: the entry is line-terminated
current_commit_message_terminated(env) ==
    LET o == git(<<"log", "-1", "--pretty=%s">>, env)
    IN  IF ~o.spawned THEN Done(Err(IoErrorMsg), <<o>>)
        ELSE IF ~stdout(o).ok THEN Done(stdout(o), <<o>>)
        ELSE Done(Ok(stdout(o).val \o <<NL>>), <<o>>)

current_commit_message(env) ==
    LET o == git(<<"log", "-1", "--pretty=format:%s">>, env)
    IN  IF ~o.spawned THEN Done(Err(IoErrorMsg), <<o>>)
        ELSE Done(stdout(o), <<o>>)

\* fs::canonicalize of a relative path: resolved against the directory the
\* process runs in, an error when no such file exists
Canonicalize(line, cwdIsRepo) ==
    IF cwdIsRepo /\ Len(line) = 1 /\ line[1] \in OnDisk
    THEN Ok(<<Directory, line[1]>>)
    ELSE Err(IoErrorMsg)

\* .filter_map(|f| fs::canonicalize(f).ok()).collect(): the paths that resolve
RECURSIVE CollectCanonicalLossy(_, _, _)
CollectCanonicalLossy(ls, cwdIsRepo, acc) ==
    IF ls = <<>> THEN Ok(acc)
    ELSE IF ~Canonicalize(Head(ls), cwdIsRepo).ok
         THEN CollectCanonicalLossy(Tail(ls), cwdIsRepo, acc)
    ELSE CollectCanonicalLossy(Tail(ls), cwdIsRepo,
                               Append(acc, Canonicalize(Head(ls), cwdIsRepo).val))

\* .map(fs::canonicalize).collect(): the paths, or the first error
RECURSIVE CollectCanonical(_, _, _)
CollectCanonical(ls, cwdIsRepo, acc) ==
    IF ls = <<>> THEN Ok(acc)
    ELSE IF ~Canonicalize(Head(ls), cwdIsRepo).ok THEN Canonicalize(Head(ls), cwdIsRepo)
    ELSE CollectCanonical(Tail(ls), cwdIsRepo, Append(acc, Canonicalize(Head(ls), cwdIsRepo).val))

\* the rest of edited_file_in_current_commit once the commit is known
files_of_commit(commit, cwdIsRepo, env) ==
    LET o == git(<<"diff-tree", "--no-commit-id", "--name-only", "-r", commit>>, env)
        files == stdout(o)
    IN  IF ~o.spawned THEN Done(Err(IoErrorMsg), <<o>>)
        ELSE IF ~files.ok THEN Done(files, <<o>>)
        ELSE Done(CollectCanonical(Lines(files.val), cwdIsRepo, <<>>), <<o>>)

edited_file_in_current_commit(cwdIsRepo, env1, env2) ==
    LET c == current_commit(env1)
        f == files_of_commit(c.res.val, cwdIsRepo, env2)
    IN  IF ~c.res.ok THEN c
        ELSE Done(f.res, c.outs \o f.outs)

\* ---------------------------------------------------------------- actions
Op(name, n, p, obj) ==
    [name |-> name, n |-> n, p |-> p, obj |-> obj,
     preHead |-> head, preBranch |-> branch]

\* the frame of one call on the handle: d is what the operation handed back
Call(op, d) ==
    /\ lastOp' = op
    /\ result' = d.res
    /\ issued' = d.outs
    /\ head' = d.head
    /\ branch' = d.branch
    /\ UNCHANGED <<commits, untracked, isRepo>>

Init ==
    /\ commits = <<>>
    /\ head = 0
    /\ branch = DefaultBranch
    /\ untracked = {}
    /\ isRepo \in BOOLEAN
    /\ repo = NoRepo
    /\ lastOp = [name |-> "init", n |-> 0, p |-> "", obj |-> <<>>,
                 preHead |-> 0, preBranch |-> DefaultBranch]
    /\ result = Ok(Unit)
    /\ issued = <<>>

\* fs::write of a file no commit holds
FsWrite(p) ==
    /\ p \notin EverTracked
    /\ p \notin untracked
    /\ untracked' = untracked \cup {p}
    /\ lastOp' = Op("fs_write", 0, p, <<>>)
    /\ result' = Ok(Unit)
    /\ issued' = <<>>
    /\ UNCHANGED <<commits, head, branch, isRepo, repo>>

\* fs::write / remove of tracked files, then git add . and git commit -m msg,
\* on the branch: W are the files written, D the files removed (a commit
\* writes files or removes one file)
GitAddAndCommit(W, D) ==
    /\ isRepo
    /\ branch = DefaultBranch
    /\ Len(commits) < MaxCommits
    /\ D \subseteq TreeAt(head)
    /\ W = {} \/ D = {}
    /\ Cardinality(D) <= 1
    /\ W \cup D \cup untracked # {}
    /\ commits' = Append(commits,
                         [touched |-> W \cup D \cup untracked,
                          tree |-> (TreeAt(head) \cup W \cup untracked) \ D,
                          msg |-> MessageOf(Len(commits) + 1)])
    /\ head' = Len(commits) + 1
    /\ untracked' = {}
    /\ lastOp' = Op("git_add_and_commit", 0, "", <<>>)
    /\ result' = Ok(Unit)
    /\ issued' = <<>>
    /\ UNCHANGED <<branch, isRepo, repo>>

New(env) ==
    /\ ~repo.built
    /\ LET d == new(Directory, env)
       IN  /\ Call(Op("new", 0, "", <<>>), d)
           /\ repo' = IF d.res.ok THEN d.res.val ELSE repo

\* checkout_head that stores the branch it finds afterwards in the handle
CheckoutHeadRecapturing(env) ==
    /\ repo.built
    /\ Call(Op("checkout_head", 0, "", <<>>), checkout_head(env))
    /\ repo' = [repo EXCEPT !.current_branch =
                   <<IF checkout_head(env).branch = "" THEN "HEAD"
                     ELSE checkout_head(env).branch, NL>>]

CheckoutHead(env) ==
    /\ repo.built
    /\ Call(Op("checkout_head", 0, "", <<>>), checkout_head(env))
    /\ UNCHANGED repo

Objects ==
    { <<Hash(i)>> : i \in 1..Len(commits) } \cup {<<DefaultBranch>>, <<"deadbeef">>}

Checkout(obj, env) ==
    /\ repo.built
    /\ Call(Op("checkout", 0, "", obj), checkout(obj, env))
    /\ UNCHANGED repo

CheckoutLastCommit(env1, env2) ==
    /\ repo.built
    /\ Call(Op("checkout_last_commit", 0, "", <<>>), checkout_last_commit(env1, env2))
    /\ UNCHANGED repo

CheckoutPreviousCommitAtPath(p, env1, env2) ==
    /\ repo.built
    /\ Call(Op("checkout_previous_commit_at_path", 0, p, <<>>),
            checkout_previous_commit_at_path(p, env1, env2))
    /\ UNCHANGED repo

NthCommit(n, env) ==
    /\ repo.built
    /\ Call(Op("nth_commit", n, "", <<>>), nth_commit(n, env))
    /\ UNCHANGED repo

CurrentCommit(env) ==
    /\ repo.built
    /\ Call(Op("current_commit", 0, "", <<>>), current_commit(env))
    /\ UNCHANGED repo

PreviousCommit(env) ==
    /\ repo.built
    /\ Call(Op("previous_commit", 0, "", <<>>), previous_commit(env))
    /\ UNCHANGED repo

PreviousCommitAtPath(p, env) ==
    /\ repo.built
    /\ Call(Op("previous_commit_at_path", 0, p, <<>>), previous_commit_at_path(p, env))
    /\ UNCHANGED repo

NthCommitAtPath(n, p, env) ==
    /\ repo.built
    /\ Call(Op("nth_commit_at_path", n, p, <<>>), nth_commit_at_path(n, p, env))
    /\ UNCHANGED repo

CurrentCommitMessage(env) ==
    /\ repo.built
    /\ Call(Op("current_commit_message", 0, "", <<>>), current_commit_message(env))
    /\ UNCHANGED repo

EditedFileInCurrentCommit(cwdIsRepo, env1, env2) ==
    /\ repo.built
    /\ Call(Op("edited_file_in_current_commit", 0, "", <<>>),
            edited_file_in_current_commit(cwdIsRepo, env1, env2))
    /\ UNCHANGED repo

Next ==
    \/ \E p \in Paths : FsWrite(p)
    \/ \E W \in SUBSET Paths, D \in SUBSET Paths : GitAddAndCommit(W, D)
    \/ \E env \in EnvKinds : New(env)
    \/ \E env \in CheckoutEnvs : CheckoutHead(env)
    \/ \E obj \in Objects, env \in CheckoutEnvs : Checkout(obj, env)
    \/ \E e \in EnvPairs : CheckoutLastCommit(e[1], e[2])
    \/ \E p \in PathArgs, e \in EnvPairs : CheckoutPreviousCommitAtPath(p, e[1], e[2])
    \/ \E n \in 1..MaxNth, env \in EnvKinds : NthCommit(n, env)
    \/ \E env \in EnvKinds : CurrentCommit(env)
    \/ \E env \in EnvKinds : PreviousCommit(env)
    \/ \E n \in 1..MaxNth, p \in PathArgs, env \in EnvKinds : NthCommitAtPath(n, p, env)
    \/ \E p \in PathArgs, env \in EnvKinds : PreviousCommitAtPath(p, env)
    \/ \E env \in EnvKinds : CurrentCommitMessage(env)
    \/ \E cwdIsRepo \in BOOLEAN, e \in EnvPairs :
          EditedFileInCurrentCommit(cwdIsRepo, e[1], e[2])

Spec == Init /\ [][Next]_vars

\* ------------------------------------- the file listing step on its own
\* Lines 96-99 of edited_file_in_current_commit applied to the commit HEAD
\* points to, from every history of up to MaxCommits commits: a commit
\* touches exactly the paths in which its tree differs from its parent's,
\* and possibly paths both trees hold (a rewritten file).
WellFormed(f, k) ==
    \A i \in 1..k :
        LET parent == IF i = 1 THEN {} ELSE f[i - 1][2]
        IN  /\ f[i][1] # {}
            /\ (f[i][2] \ parent) \cup (parent \ f[i][2]) \subseteq f[i][1]
            /\ f[i][1] \subseteq f[i][2] \cup parent

InitCollect ==
    /\ \E k \in 1..MaxCommits :
          \E f \in [1..k -> (SUBSET Paths) \X (SUBSET Paths)] :
              /\ WellFormed(f, k)
              /\ commits = [i \in 1..k |->
                               [touched |-> f[i][1], tree |-> f[i][2],
                                msg |-> MessageOf(i)]]
              /\ head = k
    /\ branch = DefaultBranch
    /\ untracked = {}
    /\ isRepo = TRUE
    /\ repo = [built |-> TRUE, directory |-> Directory,
               current_branch |-> <<DefaultBranch, NL>>]
    /\ lastOp = [name |-> "init", n |-> 0, p |-> "", obj |-> <<>>,
                 preHead |-> head, preBranch |-> DefaultBranch]
    /\ result = Ok(Unit)
    /\ issued = <<>>

FilesOfCommit(cwdIsRepo, env) ==
    /\ Call(Op("files_of_commit", 0, "", <<Hash(head)>>),
            files_of_commit(<<Hash(head)>>, cwdIsRepo, env))
    /\ UNCHANGED repo

NextCollect == \E cwdIsRepo \in BOOLEAN, env \in EnvKinds : FilesOfCommit(cwdIsRepo, env)

SpecCollect == InitCollect /\ [][NextCollect]_vars

\* ------------------------------------------------------------- properties
\* every command the last operation ran met an environment that added nothing
AllOk == \A i \in 1..Len(issued) : issued[i].env = "ok"
\* the command result the last operation decoded last
Decoded == issued[Len(issued)]
\* the commits of h's history that touched p
TouchIdx(h, p) == { i \in 1..h : p \in commits[i].touched }
MostRecent(h, p) == CHOOSE i \in TouchIdx(h, p) : \A j \in TouchIdx(h, p) : j <= i
SecondMostRecent(h, p) == MostRecent(MostRecent(h, p) - 1, p)
Moved == head # lastOp.preHead \/ branch # lastOp.preBranch

\* C1: after checkout_head() on a handle built while the branch was active,
\* whatever checkouts came before, the active branch is that branch again.
C1_CheckoutHeadRestoresBranch ==
    (lastOp.name = "checkout_head" /\ AllOk) => branch = DefaultBranch

\* C2: nth_commit(n) on a history of k >= 1 commits returns the identifier of
\* the commit min(n, k) positions back from HEAD (1 = HEAD itself).
C2_NthCommitResolves ==
    (lastOp.name = "nth_commit" /\ AllOk /\ head >= 1) =>
        result = Ok(<<Hash(IF lastOp.n <= head THEN head - lastOp.n + 1 ELSE 1)>>)

\* C3: with at least two commits of HEAD's history touching p,
\* previous_commit_at_path(p) is the second-most-recent of them, and after a
\* successful checkout_previous_commit_at_path(p) HEAD is that commit.
C3_PathScopedPrevious ==
    /\ (/\ lastOp.name = "nth_commit_at_path" /\ lastOp.n = 2 /\ AllOk
        /\ lastOp.p \in Paths
        /\ Cardinality(TouchIdx(lastOp.preHead, lastOp.p)) >= 2)
       => result = Ok(<<Hash(SecondMostRecent(lastOp.preHead, lastOp.p))>>)
    /\ (/\ lastOp.name = "checkout_previous_commit_at_path" /\ result.ok
        /\ lastOp.p \in Paths
        /\ Cardinality(TouchIdx(lastOp.preHead, lastOp.p)) >= 2)
       => (head = SecondMostRecent(lastOp.preHead, lastOp.p) /\ branch = "")

\* C4: checkout_previous_commit_at_path(p) on a path no commit ever touched
\* returns an error and leaves the working tree where it was.
C4_NoHistoryIsAnError ==
    (/\ lastOp.name = "checkout_previous_commit_at_path"
     /\ lastOp.p \in Paths
     /\ TouchIdx(Len(commits), lastOp.p) = {})
    => (~result.ok /\ ~Moved)

C4_Witness ==
    /\ lastOp.name = "checkout_previous_commit_at_path"
    /\ lastOp.p \in untracked
    /\ TouchIdx(Len(commits), lastOp.p) = {}
    /\ AllOk
    /\ Len(commits) >= 2
    /\ result = Err(NoCommitsContext)

\* C5: new() on a directory with zero commits fails, yields no handle, and
\* the failure is the NoCommits message; any other failure of the branch
\* query is returned as the transport reported it.
C5_NoCommitsAtConstruction ==
    lastOp.name = "new" =>
        /\ (isRepo /\ Len(commits) = 0) =>
              /\ ~result.ok
              /\ ~repo.built
              /\ issued[1].env \in {"ok", "warn"} => result = Err(NoCommitsMsg)
        /\ (/\ issued[1].spawned
            /\ issued[1].stderr # <<>>
            /\ Utf8Valid(issued[1].stderr)
            /\ ~Contains(issued[1].stderr, <<AmbiguousHeadMsg>>))
           => (result = Err(issued[1].stderr) /\ ~repo.built)

C5_Witness ==
    /\ lastOp.name = "new"
    /\ isRepo
    /\ Len(commits) = 0
    /\ untracked # {}
    /\ issued[1].env = "ok"
    /\ Contains(issued[1].stderr, <<AmbiguousHeadMsg>>)
    /\ result = Err(NoCommitsMsg)

\* C6: with at least two commits in HEAD's history, checkout_last_commit()
\* steps back exactly one commit: HEAD becomes the parent of the former HEAD.
C6_CheckoutLastCommitStepsBack ==
    (lastOp.name = "checkout_last_commit" /\ AllOk /\ lastOp.preHead >= 2) =>
        (result.ok /\ head = lastOp.preHead - 1)

\* C7: checkout(object) returns success when the exit status is success,
\* warnings or not, and an error when the exit status is a failure, HEAD
\* then being unchanged.
C7_CheckoutStatusDecides ==
    (lastOp.name = "checkout" /\ issued[1].spawned) =>
        /\ issued[1].status = 0 => result.ok
        /\ issued[1].status # 0 => (~result.ok /\ ~Moved)

DecodingOps ==
    {"new", "nth_commit", "nth_commit_at_path",
     "edited_file_in_current_commit", "current_commit_message"}

\* what an operation makes of the decoded standard output
FromStdout(text) ==
    CASE lastOp.name = "current_commit_message" -> result = Ok(text)
      [] lastOp.name = "new" -> (result.ok /\ repo.built /\ repo.current_branch = text)
      [] lastOp.name \in {"nth_commit", "nth_commit_at_path"} -> result = LastLine(text)
      [] OTHER -> (result.ok => Len(result.val) = Len(Lines(text)))

\* C8 as stated: in every decoding operation a non-empty error stream (of
\* readable text) makes the operation fail with an error carrying that
\* content, whatever the exit status and the standard output; an empty one
\* yields the decoded output.
C8_StderrIsCarried ==
    (lastOp.name \in DecodingOps /\ issued # <<>> /\ Decoded.spawned) =>
        /\ (Decoded.stderr # <<>> /\ Utf8Valid(Decoded.stderr))
              => result = Err(Decoded.stderr)
        /\ Decoded.stderr = <<>> => FromStdout(Decoded.stdout)

\* C8 as amended: a non-empty error stream makes the operation fail; the
\* error carries that content when it is valid UTF-8 (the decoding error
\* otherwise), except that construction answers content holding the
\* "ambiguous argument 'HEAD'" text with the NoCommits message; an empty
\* error stream yields the decoded standard output.
C8_StderrFails ==
    (lastOp.name \in DecodingOps /\ issued # <<>> /\ Decoded.spawned) =>
        /\ Decoded.stderr # <<>> =>
              result = Err(IF ~Utf8Valid(Decoded.stderr) THEN Utf8ErrorMsg
                           ELSE IF lastOp.name = "new"
                                   /\ Contains(Decoded.stderr, <<AmbiguousHeadMsg>>)
                                THEN NoCommitsMsg
                           ELSE Decoded.stderr)
        /\ Decoded.stderr = <<>> => FromStdout(Decoded.stdout)

C8_Witness ==
    /\ lastOp.name = "current_commit_message"
    /\ Decoded.status = 0
    /\ Decoded.stdout # <<>>
    /\ Decoded.stderr # <<>>
    /\ result = Err(Decoded.stderr)

\* C9: current_commit_message() returns exactly the subject line of the
\* commit HEAD points to: no line terminator, no body line.
C9_SubjectOfHead ==
    (lastOp.name = "current_commit_message" /\ AllOk) =>
        result = Ok(<<commits[head].msg.subject>>)

C9_Witness ==
    /\ lastOp.name = "current_commit_message"
    /\ AllOk
    /\ head < Len(commits)
    /\ commits[head].msg.body # <<>>
    /\ result = Ok(<<SubjectOf[head]>>)

\* C10: edited_file_in_current_commit() on a HEAD commit that added exactly
\* one file, still on disk, returns the one-element list of its absolute path.
C10_OneAddedFile ==
    (/\ lastOp.name = "edited_file_in_current_commit" /\ AllOk
     /\ head >= 1
     /\ Cardinality(commits[head].touched) = 1
     /\ commits[head].touched \cap TreeAt(head - 1) = {}
     /\ commits[head].touched \subseteq OnDisk)
    => \E f \in commits[head].touched : result = Ok(<< <<Directory, f>> >>)
Oldest(h, p) == CHOOSE i \in TouchIdx(h, p) : \A j \in TouchIdx(h, p) : i <= j

\* C11: nth_commit_at_path(n, path) fails with the "no commits" error exactly
\* when the path-restricted log came back empty (no line, nothing on the
\* error stream); on a non-empty log with fewer than n commits touching the
\* path it returns the oldest of them.
C11_EmptyLogIsNoCommits ==
    lastOp.name = "nth_commit_at_path" =>
        /\ (result = Err(NoCommitsContext))
             <=> (/\ issued # <<>> /\ Decoded.spawned
                  /\ Decoded.stderr = <<>> /\ Lines(Decoded.stdout) = <<>>)
        /\ (/\ issued # <<>> /\ Decoded.spawned /\ Decoded.stderr = <<>>
            /\ Lines(Decoded.stdout) # <<>>
            /\ lastOp.n > Cardinality(TouchIdx(head, lastOp.p)))
           => result = Ok(<<Hash(Oldest(head, lastOp.p))>>)

C11_Witness ==
    /\ lastOp.name = "nth_commit_at_path"
    /\ AllOk
    /\ lastOp.p \in Paths
    /\ Cardinality(TouchIdx(head, lastOp.p)) = 1
    /\ lastOp.n = 2
    /\ head > Oldest(head, lastOp.p)
    /\ result = Ok(<<Hash(Oldest(head, lastOp.p))>>)

\* C13: nth_commit_at_path and checkout_previous_commit_at_path on a path
\* that is no valid text fail with the "invalid path" error before any
\* command is run, so HEAD is unchanged.
C13_InvalidPathBeforeTransport ==
    (/\ lastOp.name \in {"nth_commit_at_path", "checkout_previous_commit_at_path"}
     /\ lastOp.p = BadPath)
    => (result = Err(InvalidPathMsg) /\ issued = <<>> /\ ~Moved)

C13_Witness ==
    /\ lastOp.name = "checkout_previous_commit_at_path"
    /\ lastOp.p = BadPath
    /\ Len(commits) >= 2
    /\ result = Err(InvalidPathMsg)
    /\ issued = <<>>

\* C16: the target checkout_head() hands to git is exactly the name of the
\* branch active at construction, with no line terminator.
C16_CheckoutHeadTargetIsBranchName ==
    (lastOp.name = "checkout_head" /\ issued[1].spawned) =>
        (issued[1].args[2] = <<DefaultBranch>> /\ issued[1].status = 0)

\* the resolution step of a composite checkout failed
ResolutionFailed ==
    \/ issued = <<>>
    \/ ~issued[1].spawned
    \/ issued[1].stderr # <<>>
    \/ Lines(issued[1].stdout) = <<>>
\* the error that step returns
ResolutionError ==
    IF issued = <<>> THEN InvalidPathMsg
    ELSE IF ~issued[1].spawned THEN IoErrorMsg
    ELSE IF issued[1].stderr # <<>>
         THEN (IF Utf8Valid(issued[1].stderr) THEN issued[1].stderr ELSE Utf8ErrorMsg)
    ELSE NoCommitsContext

\* C17: in checkout_last_commit() and checkout_previous_commit_at_path(p),
\* when the resolution step fails no checkout command is run, the error
\* returned is that step's, no command is repeated, and HEAD and the active
\* branch are as before the call.
C17_FailedResolutionStops ==
    (/\ lastOp.name \in {"checkout_last_commit", "checkout_previous_commit_at_path"}
     /\ ResolutionFailed)
    => /\ Len(issued) <= 1
       /\ \A i \in 1..Len(issued) : issued[i].args[1] # "checkout"
       /\ result = Err(ResolutionError)
       /\ ~Moved

C17_Witness ==
    /\ lastOp.name = "checkout_previous_commit_at_path"
    /\ lastOp.p \in Paths
    /\ Cardinality(TouchIdx(head, lastOp.p)) >= 2
    /\ lastOp.p \in OnDisk
    /\ Len(issued) = 1
    /\ issued[1].env = "warn"
    /\ ~result.ok
    /\ ~Moved
\* C14: commit resolution is never cached: once a checkout has moved HEAD to
\* X, nth_commit(1) resolves to X and nth_commit_at_path resolves within X's
\* history.
C14_ResolutionFollowsHead ==
    /\ (lastOp.name = "nth_commit" /\ lastOp.n = 1 /\ AllOk /\ branch = "")
       => result = Ok(<<Hash(head)>>)
    /\ (lastOp.name = "nth_commit_at_path" /\ result.ok /\ branch = "")
       => \E i \in TouchIdx(head, lastOp.p) : result.val = <<Hash(i)>>

\* C15: the handle's directory and current_branch never change once new()
\* has built it, whatever operation runs and however it ends.
C15_HandleIsFixed == [][repo.built => repo' = repo]_vars

C15_Witness ==
    /\ repo.built
    /\ repo.directory = Directory
    /\ repo.current_branch = <<DefaultBranch, NL>>
    /\ branch = ""
    /\ head < Len(commits)
    /\ lastOp.name = "checkout_head"
    /\ result.ok

\* C19: checkout_previous_commit_at_path(p) from a HEAD whose history holds
\* m >= 1 commits touching p succeeds and puts HEAD on a commit that touched
\* p: strictly further back while HEAD is not the oldest of them, on the
\* oldest of them from then on.
C19_RepeatedStepBack ==
    (/\ lastOp.name = "checkout_previous_commit_at_path" /\ AllOk
     /\ lastOp.p \in Paths
     /\ TouchIdx(lastOp.preHead, lastOp.p) # {})
    => /\ result.ok
       /\ head \in TouchIdx(lastOp.preHead, lastOp.p)
       /\ lastOp.preHead # Oldest(lastOp.preHead, lastOp.p) => head < lastOp.preHead
       /\ lastOp.preHead = Oldest(lastOp.preHead, lastOp.p) => head = lastOp.preHead
\* the names the decoded listing holds
Listed == Lines(Decoded.stdout)

QueryOps ==
    {"nth_commit", "current_commit", "previous_commit", "nth_commit_at_path",
     "previous_commit_at_path", "current_commit_message",
     "edited_file_in_current_commit"}
CheckoutOps ==
    {"checkout", "checkout_head", "checkout_last_commit",
     "checkout_previous_commit_at_path"}

\* C18: the query operations run no checkout and leave HEAD and the active
\* branch where they were, whether they succeed or fail; of the handle's
\* operations only the four checkouts move HEAD (outside the handle, a new
\* commit does).
C18_QueriesLeaveHead ==
    /\ lastOp.name \in QueryOps =>
          /\ ~Moved
          /\ \A i \in 1..Len(issued) : issued[i].args[1] # "checkout"
    /\ Moved => lastOp.name \in CheckoutOps \cup {"git_add_and_commit"}

C18_Witness ==
    /\ lastOp.name = "previous_commit_at_path"
    /\ result.ok
    /\ branch = ""
    /\ head < Len(commits)
    /\ result.val # <<Hash(head)>>
    /\ ~Moved
====
